---- MODULE Spec2Model ----
(***************************************************************************)
(* Mark-and-sweep heap of src/src/gc.rs: Heap (objects, roots), GcBox      *)
(* (marked, value), MyData (value, child), Gc::trace, RootGuard.           *)
(*                                                                         *)
(* A cell is identified by its address.  The global allocator hands out    *)
(* any address that is not in use, so the address of a freed cell can be   *)
(* given to a later cell while old Gc handles (Gc is Copy) still carry it. *)
(* Dereferencing the address of a freed cell is undefined behaviour; it    *)
(* is modelled as a choice among: the mark bit reads true, the mark bit    *)
(* reads false and the stale payload yields an arbitrary child, or the     *)
(* program faults.                                                         *)
(***************************************************************************)
EXTENDS Integers, Sequences, FiniteSets

\* Number of distinct cell addresses the allocator can hand out.
MaxAddr == 2
\* Number of Heap::allocate calls in a run.
MaxAllocs == 3
\* Number of RootGuards alive at once.
MaxGuards == 2
\* Saturation of the counters of trace() and drop() calls.
MaxCount == 2

Addr == 1..MaxAddr
\* Option<Gc<dyn Trace>>::None
None == 0
\* MyData.value as main.rs assigns it: 100 to a cell without child, 200 to one with.
ValueOf(c) == IF c = None THEN 100 ELSE 200

VARIABLES
    objects,    \* Heap.objects : Vec of cell addresses
    roots,      \* Heap.roots   : Vec of root addresses
    marked,     \* GcBox.marked of the cell at each address
    child,      \* MyData.child of the cell at each address (None = 0)
    value,      \* MyData.value of the cell at each address
    handles,    \* addresses returned by allocate so far (Gc values callers hold)
    dropped,    \* per address: drop(Box::from_raw) calls since it was last allocated
    guards,     \* per address: number of live RootGuards with that ptr
    nAllocs,    \* number of allocate calls so far
    pc,         \* "idle" | "mark" | "ret" | "fault"
    rootsArg,   \* collect_garbage's `roots` slice
    ri,         \* position of the `for &root in roots` loop
    cur,        \* target of the pending Gc::trace call (None = recursion unwound)
    traced,     \* per address: payload trace() invocations in this collection
    swept,      \* addresses dropped by this collection's sweep, in order
    again       \* "no", or how the call this one repeats went: "clean" | "ub"

vars == <<objects, roots, marked, child, value, handles, dropped, guards,
          nAllocs, pc, rootsArg, ri, cur, traced, swept, again>>

heapVars == <<objects, marked, child, value, handles, dropped, nAllocs>>
gcVars == <<pc, rootsArg, ri, cur, traced, swept, again>>

----------------------------------------------------------------------------
\* Helpers

Range(s) == {s[i] : i \in 1..Len(s)}

\* Number of positions of s holding a.
Count(s, a) == Cardinality({i \in 1..Len(s) : s[i] = a})

RECURSIVE SetToSeq(_)
SetToSeq(S) ==
    IF S = {} THEN <<>>
    ELSE LET m == CHOOSE x \in S : \A y \in S : x <= y
         IN <<m>> \o SetToSeq(S \ {m})

\* The storage at address a holds a cell (allocated and not yet freed).
InUse(a) == a \in handles /\ dropped[a] = 0

\* Saturating counter.
Sat(n) == IF n > MaxCount THEN MaxCount ELSE n

----------------------------------------------------------------------------
Init ==
    /\ objects = <<>>
    /\ roots = <<>>
    /\ marked = [a \in Addr |-> FALSE]
    /\ child = [a \in Addr |-> None]
    /\ value = [a \in Addr |-> 0]
    /\ handles = {}
    /\ dropped = [a \in Addr |-> 0]
    /\ guards = [a \in Addr |-> 0]
    /\ nAllocs = 0
    /\ pc = "idle"
    /\ rootsArg = <<>>
    /\ ri = 1
    /\ cur = None
    /\ traced = [a \in Addr |-> 0]
    /\ swept = <<>>
    /\ again = "no"

\* An allocate whose GcBox::new starts the cell marked.
AllocateMarked(a, c) ==
    /\ pc = "idle"
    /\ nAllocs < MaxAllocs
    /\ ~InUse(a)
    /\ objects' = Append(objects, a)
    /\ marked' = [marked EXCEPT ![a] = TRUE]
    /\ child' = [child EXCEPT ![a] = c]
    /\ value' = [value EXCEPT ![a] = ValueOf(c)]
    /\ handles' = handles \cup {a}
    /\ dropped' = [dropped EXCEPT ![a] = 0]
    /\ nAllocs' = nAllocs + 1
    /\ UNCHANGED <<roots, guards, gcVars>>

\* Heap::allocate(MyData { value: v, child: c }), the allocator returning a.
Allocate(a, c) ==
    /\ pc = "idle"
    /\ nAllocs < MaxAllocs
    /\ ~InUse(a)
    /\ objects' = Append(objects, a)
    /\ marked' = [marked EXCEPT ![a] = FALSE]
    /\ child' = [child EXCEPT ![a] = c]
    /\ value' = [value EXCEPT ![a] = ValueOf(c)]
    /\ handles' = handles \cup {a}
    /\ dropped' = [dropped EXCEPT ![a] = 0]
    /\ nAllocs' = nAllocs + 1
    /\ UNCHANGED <<roots, guards, gcVars>>

\* register_root without the `contains` test.
RegisterRootPush(rs, a) == Append(rs, a)

\* Heap::register_root
RegisterRootVec(rs, a) == IF a \in Range(rs) THEN rs ELSE Append(rs, a)

\* An unregister_root that clears the root Vec.
UnregisterRootClear(rs, a) == <<>>

\* Heap::unregister_root
UnregisterRootVec(rs, a) == SelectSeq(rs, LAMBDA r : r /= a)

RegisterRoot(a) ==
    /\ pc = "idle"
    /\ roots' = RegisterRootVec(roots, a)
    /\ UNCHANGED <<heapVars, guards, gcVars>>

UnregisterRoot(a) ==
    /\ pc = "idle"
    /\ roots' = UnregisterRootVec(roots, a)
    /\ UNCHANGED <<heapVars, guards, gcVars>>

RECURSIVE Sum(_, _)
Sum(f, S) == IF S = {} THEN 0
             ELSE LET x == CHOOSE y \in S : TRUE IN f[x] + Sum(f, S \ {x})

\* Number of live RootGuards.
GuardCount == Sum(guards, Addr)

\* RootGuard::new
NewGuard(a) ==
    /\ pc = "idle"
    /\ GuardCount < MaxGuards
    /\ roots' = RegisterRootVec(roots, a)
    /\ guards' = [guards EXCEPT ![a] = @ + 1]
    /\ UNCHANGED <<heapVars, gcVars>>

\* Drop for RootGuard
DropGuard(a) ==
    /\ pc = "idle"
    /\ guards[a] > 0
    /\ roots' = UnregisterRootVec(roots, a)
    /\ guards' = [guards EXCEPT ![a] = @ - 1]
    /\ UNCHANGED <<heapVars, gcVars>>

----------------------------------------------------------------------------
\* collect_garbage(roots), one step per loop iteration / trace call

\* collect_garbage without its unmark loop.
UnmarkAllSkip(m, objs) == m

\* An unmark loop that flips the mark bit instead of clearing it.
UnmarkToggle(m, objs) == [a \in Addr |-> IF a \in Range(objs) THEN ~m[a] ELSE m[a]]

\* An unmark loop that stops after the first object.
UnmarkFirst(m, objs) ==
    [a \in Addr |-> IF objs /= <<>> /\ a = objs[1] THEN FALSE ELSE m[a]]

\* `for obj in &self.objects { marked.set(false) }`
UnmarkAll(m, objs) == [a \in Addr |-> IF a \in Range(objs) THEN FALSE ELSE m[a]]

\* A mark test that takes every cell for marked already.
UnmarkedNever(m, a) == FALSE

\* A trace that does not test the mark bit.
UnmarkedAlways(m, a) == TRUE

\* `if !gc_box.marked.get()` in Gc::trace and in the root loop
Unmarked(m, a) == ~m[a]

\* A payload trace that ignores its child.
PayloadTraceNone(ch, a) == None

\* MyData::trace: the reference the payload passes to Gc::trace (None if no child)
PayloadTrace(ch, a) == ch[a]

\* A retain closure that drops the unmarked cells but returns true for all.
SweepKeepAll(objs, m) == objs

\* retain's result: the pointers whose closure returned `keep`
SweepKeep(objs, m) == SelectSeq(objs, LAMBDA p : m[p])

\* the pointers the retain closure passed to drop(Box::from_raw(..))
SweepDrop(objs, m) == SelectSeq(objs, LAMBDA p : ~m[p])

\* The object set as it was when the running collection began.
Before == Range(objects) \cup Range(swept)

\* Addresses reached from S along child references of the cells in live.
RECURSIVE ReachIn(_, _, _)
ReachIn(ch, live, S) ==
    LET N == S \cup ({ch[a] : a \in S \cap live} \ {None})
    IN IF N = S THEN S ELSE ReachIn(ch, live, N)

\* Transitive closure of the running collection's roots over its object graph.
Reached == ReachIn(child, Before, Range(rootsArg))

\* The running collection dereferences no freed address: every root and every
\* reference reached from the roots names a cell of the object set.
Clean == Reached \subseteq Before

StartCollect(R) ==
    /\ pc = "idle"
    /\ marked' = UnmarkAll(marked, objects)
    /\ rootsArg' = R
    /\ ri' = 1
    /\ cur' = None
    /\ traced' = [a \in Addr |-> 0]
    /\ swept' = <<>>
    /\ pc' = "mark"
    /\ again' = "no"
    /\ UNCHANGED <<objects, roots, child, value, handles, dropped, guards,
                   nAllocs>>

\* heap.collect_garbage(&roots) with a caller-chosen slice of held Gc handles
Collect(S) == StartCollect(SetToSeq(S))

\* main.rs: `let roots = heap.roots.clone(); heap.collect_garbage(&roots)`
CollectStored == StartCollect(roots)

\* A mark loop over the Heap's own roots Vec.
MarkSliceStored(arg, stored) == stored

\* `for &root in roots`: the slice the mark loop walks is the parameter.
MarkSlice(arg, stored) == arg

\* `if !marked.get() { marked.set(true); value.trace() }` on the cell at a.
\* On a freed address this reads freed memory: the mark bit and the stale
\* payload's child are whatever the memory holds.
Visit(a) ==
    IF InUse(a)
    THEN IF Unmarked(marked, a)
         THEN /\ marked' = [marked EXCEPT ![a] = TRUE]
              /\ traced' = [traced EXCEPT ![a] = Sat(@ + 1)]
              /\ cur' = PayloadTrace(child, a)
         ELSE /\ cur' = None
              /\ UNCHANGED <<marked, traced>>
    ELSE /\ \E c \in Addr \cup {None} : cur' = c
         /\ UNCHANGED <<marked, traced>>

\* One iteration of `for &root in roots`
MarkRoot ==
    /\ pc = "mark"
    /\ cur = None
    /\ ri <= Len(MarkSlice(rootsArg, roots))
    /\ Visit(MarkSlice(rootsArg, roots)[ri])
    /\ ri' = ri + 1
    /\ UNCHANGED <<objects, roots, child, value, handles, dropped, guards,
                   nAllocs, pc, rootsArg, swept, again>>

\* Gc::trace on the child handed over by the payload's trace
TraceChild ==
    /\ pc = "mark"
    /\ cur /= None
    /\ Visit(cur)
    /\ UNCHANGED <<objects, roots, child, value, handles, dropped, guards,
                   nAllocs, pc, rootsArg, ri, swept, again>>

\* The dereference of a freed address faults instead (the program halts).
Fault ==
    /\ pc = "mark"
    /\ \/ cur /= None /\ ~InUse(cur)
       \/ /\ cur = None
          /\ ri <= Len(MarkSlice(rootsArg, roots))
          /\ ~InUse(MarkSlice(rootsArg, roots)[ri])
    /\ pc' = "fault"
    /\ UNCHANGED <<objects, roots, marked, child, value, handles, dropped, guards,
                   nAllocs, rootsArg, ri, cur, traced, swept, again>>

\* `self.objects.retain(..)`
Sweep ==
    /\ pc = "mark"
    /\ cur = None
    /\ ri > Len(MarkSlice(rootsArg, roots))
    /\ objects' = SweepKeep(objects, marked)
    /\ swept' = SweepDrop(objects, marked)
    /\ dropped' = [a \in Addr |-> Sat(dropped[a] + Count(swept', a))]
    /\ pc' = "ret"
    /\ UNCHANGED <<roots, marked, child, value, handles, guards, nAllocs,
                   rootsArg, ri, cur, traced, again>>

\* collect_garbage returns.  The contents of the freed cells are gone.
Return ==
    /\ pc = "ret"
    /\ pc' = "idle"
    /\ marked' = [a \in Addr |-> IF a \in Range(swept) THEN FALSE ELSE marked[a]]
    /\ child' = [a \in Addr |-> IF a \in Range(swept) THEN None ELSE child[a]]
    /\ value' = [a \in Addr |-> IF a \in Range(swept) THEN 0 ELSE value[a]]
    /\ rootsArg' = <<>>
    /\ ri' = 1
    /\ traced' = [a \in Addr |-> 0]
    /\ swept' = <<>>
    /\ again' = "no"
    /\ UNCHANGED <<objects, roots, handles, dropped, guards, nAllocs, cur>>

\* collect_garbage returns and the caller calls it again with the same slice.
Recollect ==
    /\ pc = "ret"
    /\ pc' = "mark"
    /\ marked' = UnmarkAll([a \in Addr |-> IF a \in Range(swept) THEN FALSE ELSE marked[a]],
                           objects)
    /\ child' = [a \in Addr |-> IF a \in Range(swept) THEN None ELSE child[a]]
    /\ value' = [a \in Addr |-> IF a \in Range(swept) THEN 0 ELSE value[a]]
    /\ ri' = 1
    /\ traced' = [a \in Addr |-> 0]
    /\ swept' = <<>>
    /\ again' = IF Clean THEN "clean" ELSE "ub"
    /\ UNCHANGED <<objects, roots, handles, dropped, guards, nAllocs, cur, rootsArg>>

Next ==
    \/ \E a \in Addr, c \in handles \cup {None} : Allocate(a, c)
    \/ \E a \in handles : RegisterRoot(a)
    \/ \E a \in handles : UnregisterRoot(a)
    \/ \E S \in SUBSET handles : Collect(S)
    \/ CollectStored
    \/ MarkRoot
    \/ TraceChild
    \/ Fault
    \/ Sweep
    \/ Return
    \/ Recollect

Spec == Init /\ [][Next]_vars

\* collect_garbage runs to completion once called (single-threaded, no suspension).
FairSpec == Spec /\ WF_vars(MarkRoot \/ TraceChild \/ Sweep)

\* Roots managed by RootGuards only, collections against the stored roots.
NextGuard ==
    \/ \E a \in Addr, c \in handles \cup {None} : Allocate(a, c)
    \/ \E a \in handles : NewGuard(a)
    \/ \E a \in Addr : DropGuard(a)
    \/ CollectStored
    \/ MarkRoot
    \/ TraceChild
    \/ Fault
    \/ Sweep
    \/ Return

GuardSpec == Init /\ [][NextGuard]_vars

----------------------------------------------------------------------------
\* Properties.  In a state with pc = "ret" collect_garbage has finished its
\* sweep: objects is the surviving object set, swept the cells it freed, and
\* child still shows the reference graph the collection ran on.

NoDup(s) == \A i, j \in 1..Len(s) : s[i] = s[j] => i = j

\* The cell at a lies on a reference cycle of the collection's object graph.
OnCycle(a) ==
    /\ a \in Before
    /\ child[a] /= None
    /\ ReachIn(child, Before, {a}) \subseteq Before
    /\ a \in ReachIn(child, Before, {child[a]})

\* The cells of the cycle through a (every cell has at most one child).
CycleOf(a) == ReachIn(child, Before, {a})

C2_CycleSafety ==
    pc = "ret" =>
        \A a \in Before :
            OnCycle(a) =>
                /\ (Clean /\ Reached \cap CycleOf(a) = {})
                       => CycleOf(a) \cap Range(objects) = {}
                /\ (Range(rootsArg) \cap CycleOf(a) /= {})
                       => CycleOf(a) \subseteq Range(objects)

\* A cycle of two cells was freed by one collection.
C2_Witness ==
    /\ pc = "ret"
    /\ Clean
    /\ \E a \in Before :
          /\ OnCycle(a)
          /\ Cardinality(CycleOf(a)) = 2
          /\ CycleOf(a) \subseteq Range(swept)

\* C3: a payload's trace runs at most once per cell and collection, and a mark
\* phase that dereferences no freed address reaches the sweep.
C3_MarkTerminates ==
    /\ [](\A a \in Addr : traced[a] <= 1)
    /\ (pc = "mark" /\ Clean) ~> (pc = "ret")

\* The mark phase met a cell of a cycle a second time and did not trace it again.
C3_Witness ==
    /\ pc = "mark"
    /\ Clean
    /\ cur /= None
    /\ OnCycle(cur)
    /\ marked[cur]
    /\ traced[cur] = 1

\* C4: collect_garbage(R) called again at once with the same R, the first call
\* having dereferenced no freed address, frees no cell and dereferences none.
C4_Idempotent ==
    (pc = "ret" /\ again = "clean") => (swept = <<>> /\ Clean)

\* The repeated call has swept a heap that holds a root and a cell kept through
\* a reference, after an earlier collection had freed a cell.
C4_Witness ==
    /\ pc = "ret"
    /\ again = "clean"
    /\ rootsArg /= <<>>
    /\ nAllocs > Cardinality(handles)
    /\ \E a \in Range(objects) : a \notin Range(rootsArg)

\* C5: whenever no collection is in progress, every stored root names a cell
\* of the object set.
C5_RootsLive ==
    pc = "idle" => Range(roots) \subseteq Range(objects)

\* C6: a collection against the stored roots frees no cell that a live
\* RootGuard roots, and frees every cell that no guard roots and no stored
\* root reaches.
C6_GuardScoping ==
    (pc = "ret" /\ rootsArg = roots) =>
        \A a \in Before :
            /\ guards[a] > 0 => a \in Range(objects)
            /\ (Clean /\ guards[a] = 0 /\ a \notin Reached) => a \notin Range(objects)

\* C7: releasing one of two guards of the same address leaves the address in
\* the root set.
C7_OverlapKeepsRoot ==
    [][\A a \in Addr :
          (guards[a] >= 2 /\ guards'[a] = guards[a] - 1) => a \in Range(roots')]_vars

\* The threshold T of the claim (the Heap has no such field).
Threshold == 2

\* C8: every T-th allocate call collects against the stored roots before it
\* returns: no earlier cell that the stored roots do not reach is left in the
\* object set.
C8_ThresholdCollect ==
    [][(nAllocs' = nAllocs + 1 /\ nAllocs' % Threshold = 0) =>
          \A a \in Range(objects) :
              a \in Range(objects') =>
                  a \in ReachIn(child', Range(objects'), Range(roots'))]_vars

\* C9: a cell that has left the object set has been dropped exactly once, a
\* cell in the object set has not been dropped, and one sweep drops no address
\* twice and drops nothing it keeps.
C9_ExactlyOnce ==
    /\ \A a \in handles :
          IF a \in Range(objects) THEN dropped[a] = 0 ELSE dropped[a] = 1
    /\ \A a \in Addr \ handles : dropped[a] = 0
    /\ NoDup(swept)
    /\ Range(swept) \cap Range(objects) = {}
    /\ pc /= "ret" => swept = <<>>

\* A sweep dropped two cells, one of them at an address that was freed and
\* allocated again before.
C9_Witness ==
    /\ pc = "ret"
    /\ Len(swept) >= 2
    /\ nAllocs > Cardinality(handles)

\* C10: register_root adds an address only if absent (a second call with the
\* same address changes nothing), and no address occurs twice in the root set
\* or in the object set.
C10_NoDuplicates ==
    /\ NoDup(roots)
    /\ NoDup(objects)
    /\ \A a \in handles :
          LET once == RegisterRootVec(roots, a)
          IN /\ RegisterRootVec(once, a) = once
             /\ Count(once, a) = 1
             /\ a \in Range(roots) => once = roots

\* Two roots registered and two cells allocated, one at a reused address.
C10_Witness ==
    /\ Len(roots) >= 2
    /\ Len(objects) >= 2
    /\ nAllocs > Cardinality(handles)

\* C11: unregister_root(addr) takes addr out of the root set and keeps every
\* other root; with addr absent it changes nothing; the step that removes a
\* root leaves the object set, the mark bits, the payloads and the count of
\* drops as they were.
C11_UnregisterFrame ==
    /\ [](\A a \in handles :
            LET r == UnregisterRootVec(roots, a)
            IN /\ a \notin Range(r)
               /\ \A b \in Range(roots) \ {a} : Count(r, b) = Count(roots, b)
               /\ a \notin Range(roots) => r = roots)
    /\ [][Len(roots') < Len(roots) =>
            /\ \E a \in Range(roots) : Range(roots') = Range(roots) \ {a}
            /\ UNCHANGED <<objects, marked, child, value, dropped>>]_vars

\* One root is left registered while a marked cell of the object set, kept by
\* an earlier collection, is no root.
C11_Witness ==
    /\ pc = "idle"
    /\ Len(roots) = 1
    /\ \E a \in Range(objects) : a \notin Range(roots) /\ marked[a]

\* C12: allocate puts a cell at an address that is not in the object set, with
\* its mark bit false, appends the address to the object set and hands it out;
\* the root set and the mark bit, child and value of every cell already in the
\* object set stay as they were.
C12_AllocateFrame ==
    [][nAllocs' = nAllocs + 1 =>
          \E a \in Addr :
              /\ a \notin Range(objects)
              /\ objects' = Append(objects, a)
              /\ ~marked'[a]
              /\ handles' = handles \cup {a}
              /\ roots' = roots
              /\ \A b \in Range(objects) :
                    /\ marked'[b] = marked[b]
                    /\ child'[b] = child[b]
                    /\ value'[b] = value[b]]_vars

\* An unmarked cell was appended, at an address freed before, behind a marked
\* cell, with a root registered.
C12_Witness ==
    /\ pc = "idle"
    /\ Len(objects) = 2
    /\ marked[objects[1]]
    /\ ~marked[objects[2]]
    /\ roots /= <<>>
    /\ nAllocs > Cardinality(handles)

\* The payload of every cell of the object set is as allocate stored it.
PayloadIntact == \A a \in Range(objects) : value[a] = ValueOf(child[a])

\* C13, as claimed: with B referencing A, a collection with roots {A, B} keeps
\* both, a collection with roots {A} frees B exactly once and keeps A, and the
\* payloads of the cells in the object set are as they were stored.
C13_TwoStep ==
    /\ PayloadIntact
    /\ (pc = "ret" /\ Clean) =>
          \A a, b \in Before :
              (a /= b /\ child[b] = a) =>
                  /\ Range(rootsArg) = {a, b} => {a, b} \subseteq Range(objects)
                  /\ Range(rootsArg) = {a} =>
                        /\ Count(swept, b) = 1
                        /\ dropped[b] = 1
                        /\ b \notin Range(objects)
                        /\ a \in Range(objects)

\* C13, amended: the same, B being freed by the collection with roots {A}
\* when A does not reach B; no step changes the value or the child of a cell
\* that stays in the object set.
C13_TwoStepAcyclic ==
    /\ [](PayloadIntact)
    /\ []((pc = "ret" /\ Clean) =>
            \A a, b \in Before :
                (a /= b /\ child[b] = a) =>
                    /\ Range(rootsArg) = {a, b} => {a, b} \subseteq Range(objects)
                    /\ Range(rootsArg) = {a} =>
                          /\ a \in Range(objects)
                          /\ b \notin Reached =>
                                /\ Count(swept, b) = 1
                                /\ dropped[b] = 1
                                /\ b \notin Range(objects))
    /\ [][\A a \in Range(objects) \cap Range(objects') :
              value'[a] = value[a] /\ child'[a] = child[a]]_vars

\* The collection with roots {A} has freed B (value 200, child A) and kept A
\* (value 100, no child).
C13_Witness ==
    /\ pc = "ret"
    /\ Clean
    /\ \E a, b \in Before :
          /\ a /= b
          /\ child[b] = a
          /\ child[a] = None
          /\ Range(rootsArg) = {a}
          /\ swept = <<b>>
          /\ objects = <<a>>
          /\ value[a] = 100
          /\ value[b] = 200

C15_GuardedRooted ==
    \A a \in Addr : guards[a] > 0 => a \in Range(roots)

\* No allocated cell references a freed cell.
NoDanglingEdge ==
    \A a \in Addr : InUse(a) => (child[a] = None \/ InUse(child[a]))

\* The sweep of a collection whose roots are all in the object set.
SweepOfLiveRoots ==
    pc = "mark" /\ pc' = "ret" /\ Range(rootsArg) \subseteq Range(objects)

\* The child of the payload given to the allocate call of this step.
NewChild == child'[objects'[Len(objects')]]

\* C16, as claimed: with no dangling reference before, neither a collection
\* whose roots are in the object set nor an allocate call (its payload holding
\* a reference that allocate returned) leaves a cell that references a freed
\* cell.
C16_NoDanglingEdges ==
    [][(NoDanglingEdge /\ (SweepOfLiveRoots \/ nAllocs' = nAllocs + 1))
          => NoDanglingEdge']_vars

\* C16, amended: the same for allocate calls whose payload references a cell
\* that is in the object set at the call.
C16_NoDanglingEdgesLive ==
    [][(NoDanglingEdge
          /\ \/ SweepOfLiveRoots
             \/ /\ nAllocs' = nAllocs + 1
                /\ NewChild \in Range(objects) \cup {None})
          => NoDanglingEdge']_vars

\* After a collection freed a cell, a cell was allocated at the freed address
\* with a reference to a cell that survived, and no reference dangles.
C16_Witness ==
    /\ pc = "idle"
    /\ NoDanglingEdge
    /\ nAllocs > Cardinality(handles)
    /\ \E a \in Range(objects) :
          /\ ~marked[a]
          /\ child[a] \in Range(objects) \ {a}
          /\ marked[child[a]]

\* C17: outside collect_garbage no step changes the mark bit of a cell of the
\* object set; when a mark phase starts every cell of the object set is
\* unmarked; when collect_garbage returns every cell left in the object set is
\* marked.
C17_MarkBitDiscipline ==
    /\ [][(pc = "idle" /\ pc' = "idle")
            => \A a \in Range(objects) : marked'[a] = marked[a]]_vars
    /\ [][(pc /= "mark" /\ pc' = "mark")
            => \A a \in Range(objects') : ~marked'[a]]_vars
    /\ [](pc = "ret" => \A a \in Range(objects) : marked[a])

\* A collection that found marks left by an earlier one returns with a cell
\* kept and a cell freed.
C17_Witness ==
    /\ pc = "ret"
    /\ objects /= <<>>
    /\ swept /= <<>>
    /\ \A a \in Range(objects) : marked[a]
    /\ nAllocs > Cardinality(Before)

====
